---- MODULE Spec2Model ----
(***************************************************************************)
(* SARS eFiling automation service (sars.py).                              *)
(*                                                                         *)
(* One FastAPI route, POST /run, hands run_action_sync to a thread pool    *)
(* of two workers and waits for its result for at most 300 seconds.         *)
(* run_action_sync opens a Chrome driver, runs login_action and            *)
(* optionally scrape_organization_dashboard against it, quits the driver   *)
(* and returns a dict.                                                     *)
(*                                                                         *)
(* Python values are tagged records, strings are sequences of characters   *)
(* (so that str.lower() and the substring test `in` are computed), a dict  *)
(* returned to the client is a record and an f-string message is the       *)
(* tuple of its pieces.  The browser and the web site are the environment: *)
(* every driver call either returns or raises.  Wall-clock time is not     *)
(* modelled: a wait that times out and the 300-second limit of             *)
(* future.result are choices of the environment.                           *)
(***************************************************************************)
EXTENDS Integers, Sequences, FiniteSets, TLC

\* ------------------------------------------------------------- bounds
\* Number of POST /run requests the clients send.
NumReq == 3
\* Largest number of polls one WebDriverWait.until makes before it gives up.
MaxPolls == 2

\* ------------------------------------------------------------- strings
S_login == <<"l","o","g","i","n">>
S_LOGIN == <<"L","O","G","I","N">>
S_scrape_dashboard == <<"s","c","r","a","p","e","_","d","a","s","h","b","o","a","r","d">>
S_Scrape_Dashboard == <<"S","c","r","a","p","e","_","D","a","s","h","b","o","a","r","d">>
S_logout == <<"l","o","g","o","u","t">>
S_app_login == <<"/","a","p","p","/","l","o","g","i","n">>
S_app_auth_password == <<"/","a","p","p","/","a","u","t","h","/","p","a","s","s","w","o","r","d">>
S_user == <<"u","1">>
S_pass == <<"p","w">>

\* URLs the browser may report as driver.current_url; the origin
\* https://secure.sarsefiling.co.za, common to all of them, is left out.
U_login == <<"/","a","p","p","/","l","o","g","i","n">>
U_Login == <<"/","A","p","p","/","L","o","g","i","n">>
U_password == <<"/","a","p","p","/","a","u","t","h","/","p","a","s","s","w","o","r","d">>
U_landing == <<"/","a","p","p","/","d","a","s","h","b","o","a","r","d","/","o","r","g","a","n","i","z","a","t","i","o","n">>

LoginPage == "https://secure.sarsefiling.co.za/app/login"
dashboard_url == "https://secure.sarsefiling.co.za/app/dashboard/organization"

UpperCase == <<"A","B","C","D","E","F","G","H","I","J","K","L","M","N","O","P","Q","R","S","T","U","V","W","X","Y","Z">>
LowerCase == <<"a","b","c","d","e","f","g","h","i","j","k","l","m","n","o","p","q","r","s","t","u","v","w","x","y","z">>

\* str.lower() on one character.
LowerChar(c) ==
    IF \E i \in 1..Len(UpperCase) : UpperCase[i] = c
    THEN LowerCase[CHOOSE i \in 1..Len(UpperCase) : UpperCase[i] = c]
    ELSE c

\* str.lower()
Lower(s) == [i \in 1..Len(s) |-> LowerChar(s[i])]

\* Python's `sub in s` on strings.
Contains(s, sub) ==
    \E i \in 0..(Len(s) - Len(sub)) : SubSeq(s, i + 1, i + Len(sub)) = sub

\* ------------------------------------------------------------- Python values
\* A decoded JSON value.  Each type has its own field so that values of two
\* types are never compared field by field.
None == [t |-> "none"]
Str(s) == [t |-> "str", s |-> s]
Num(n) == [t |-> "num", n |-> n]
Dict(f) == [t |-> "dict", d |-> f]
List(l) == [t |-> "list", l |-> l]

\* Variant: the test `v is not None` in place of bool(v).
Truthy_is_not_none(v) == v.t # "none"

\* bool(v)
Truthy(v) ==
    CASE v.t = "none" -> FALSE
      [] v.t = "str" -> Len(v.s) > 0
      [] v.t = "num" -> v.n # 0
      [] v.t = "dict" -> DOMAIN v.d # {}
      [] v.t = "list" -> Len(v.l) > 0

\* v.get(key, default) where v is a dict; only dicts have .get
HasGet(v) == v.t = "dict"
Get(v, key, default) == IF key \in DOMAIN v.d THEN v.d[key] ELSE default

\* A call that returned `v`, and a call that raised `e`.
Ret(v) == [k |-> "return", v |-> v]
Raise(e) == [k |-> "raise", e |-> e]

\* ------------------------------------------------------------- the browser
\* What the browser and the site may do in a run: "nominal" is the site
\* working as the script expects (no call raises, every wait succeeds at its
\* first poll); "arbitrary" lets every driver call raise, every wait time
\* out and current_url be any of the URLs.
Sites == {"nominal", "arbitrary"}
Raises(site) == IF site = "arbitrary" THEN {FALSE, TRUE} ELSE {FALSE}

\* One driver call in the log of a browser, and whether it returned.
Ev(call, ok) == [call |-> call, ok |-> ok]

\* EC.url_contains("/app/auth/password")
url_contains_password(u) == Contains(u, S_app_auth_password)

\* Variant: the last wait without .lower().
left_login_no_lower(u) ==
    /\ ~Contains(u, S_app_login)
    /\ ~Contains(u, S_app_auth_password)

\* The lambda of the last wait of login_action.
left_login(u) ==
    /\ ~Contains(Lower(u), S_app_login)
    /\ ~Contains(Lower(u), S_app_auth_password)

UrlCond(cond, u) ==
    IF cond = "url_contains_password" THEN url_contains_password(u) ELSE left_login(u)

\* The URLs one poll of a wait may read: while waiting for the password page
\* the browser is on the login page or on the password page; after the
\* click on Login it is still on the password page, back on the login page
\* (which the site also serves as /App/Login) or on the landing page.
PollUrls(cond, site) ==
    IF cond = "url_contains_password"
    THEN IF site = "arbitrary" THEN {U_login, U_password} ELSE {U_password}
    ELSE IF site = "arbitrary" THEN {U_password, U_Login, U_landing} ELSE {U_landing}

\* WebDriverWait.until on a URL condition: poll current_url until the
\* condition holds; after n failed polls the wait raises TimeoutException.
RECURSIVE Polls(_, _, _)
Polls(cond, n, site) ==
    IF n = 0 THEN {[calls |-> <<>>, ok |-> FALSE]}
    ELSE UNION {
        IF UrlCond(cond, u)
        THEN {[calls |-> <<Ev([op |-> "current_url", url |-> u], TRUE)>>, ok |-> TRUE]}
        ELSE {[calls |-> <<Ev([op |-> "current_url", url |-> u], TRUE)>> \o r.calls,
               ok |-> r.ok] : r \in Polls(cond, n - 1, site)}
        : u \in PollUrls(cond, site)}

\* The driver calls of login_action's try block, in program order.
LoginScript(username, password) == <<
    [op |-> "get", page |-> LoginPage],
    [op |-> "wait_present", el |-> "username"],
    [op |-> "clear", el |-> "username"],
    [op |-> "send_keys", el |-> "username", keys |-> username],
    [op |-> "wait_present", el |-> "Next"],
    [op |-> "scrollIntoView", el |-> "Next"],
    [op |-> "click", el |-> "Next"],
    [op |-> "wait_url", cond |-> "url_contains_password"],
    [op |-> "wait_present", el |-> "password"],
    [op |-> "clear", el |-> "password"],
    [op |-> "send_keys", el |-> "password", keys |-> password],
    [op |-> "wait_present", el |-> "Login"],
    [op |-> "scrollIntoView", el |-> "Login"],
    [op |-> "click", el |-> "Login"],
    [op |-> "wait_url", cond |-> "left_login"] >>

\* One statement of the script: the calls it makes and the exception it
\* raises ("" when it completes).
StepOutcomes(step, site) ==
    CASE step.op = "click" ->
           \* try: btn.click()  except: driver.execute_script("arguments[0].click()", btn)
           {[calls |-> <<Ev([op |-> "native_click", el |-> step.el], TRUE)>>, exc |-> ""]}
           \cup {[calls |-> <<Ev([op |-> "native_click", el |-> step.el], FALSE),
                              Ev([op |-> "script_click", el |-> step.el], ~r)>>,
                  exc |-> IF r THEN "JavascriptException" ELSE ""]
                 : r \in (IF site = "arbitrary" THEN {FALSE, TRUE} ELSE {})}
      [] step.op = "wait_url" ->
           {[calls |-> p.calls \o <<Ev(step, p.ok)>>,
             exc |-> IF p.ok THEN "" ELSE "TimeoutException"]
            : p \in Polls(step.cond, MaxPolls, site)}
      [] step.op = "wait_present" ->
           {[calls |-> <<Ev(step, ~r)>>, exc |-> IF r THEN "TimeoutException" ELSE ""]
            : r \in Raises(site)}
      [] OTHER ->
           {[calls |-> <<Ev(step, ~r)>>, exc |-> IF r THEN "WebDriverException" ELSE ""]
            : r \in Raises(site)}

\* f"screenshot_{ts}.png"; the clock value ts is not modelled.
screenshot_path == "screenshot_<ts>.png"

\* Variant: the except block without the inner try around save_screenshot.
LoginExcept_unguarded(calls, e, site) ==
    {[out |-> IF r THEN Raise("WebDriverException")
              ELSE Ret([status |-> "error", message |-> <<"Login failed: ", e>>,
                        screenshot |-> screenshot_path]),
      calls |-> calls \o <<Ev([op |-> "save_screenshot", path |-> screenshot_path], ~r)>>]
     : r \in Raises(site)}

\* The except block of login_action: one save_screenshot, whose own failure
\* is swallowed, then the error dict.
LoginExcept(calls, e, site) ==
    {[out |-> Ret([status |-> "error", message |-> <<"Login failed: ", e>>,
                   screenshot |-> screenshot_path]),
      calls |-> calls \o <<Ev([op |-> "save_screenshot", path |-> screenshot_path], ~r)>>]
     : r \in Raises(site)}

\* The return statement of the try block; it reads driver.current_url.
LoginReturn(calls, site) ==
    {[out |-> Ret([status |-> "ok", message |-> <<"Login successful">>, current_url |-> u]),
      calls |-> calls \o <<Ev([op |-> "current_url", url |-> u], TRUE)>>]
     : u \in PollUrls("left_login", site)}
    \cup UNION {LoginExcept(calls \o <<Ev([op |-> "current_url"], FALSE)>>,
                            "WebDriverException", site)
                : r \in Raises(site) \ {FALSE}}

\* The script from statement i on, `calls` being the calls made so far.
RECURSIVE LoginFrom(_, _, _, _)
LoginFrom(script, i, calls, site) ==
    IF i > Len(script) THEN LoginReturn(calls, site)
    ELSE UNION {
        IF o.exc = "" THEN LoginFrom(script, i + 1, calls \o o.calls, site)
        ELSE LoginExcept(calls \o o.calls, o.exc, site)
        : o \in StepOutcomes(script[i], site)}

\* login_action(driver, username, password): every (result, calls) it can
\* produce against the site.
login_action(username, password, site) ==
    LoginFrom(LoginScript(username, password), 1, <<>>, site)

\* BeautifulSoup(html).get_text(separator="\n", strip=True): the text nodes
\* of the page, markup dropped, empty ones skipped.
Pages == {<<>>, <<[tag |-> TRUE, s |-> "body"], [tag |-> FALSE, s |-> "Organisation"],
                  [tag |-> FALSE, s |-> ""], [tag |-> TRUE, s |-> "/body"]>>}
get_text(html) ==
    LET kept == SelectSeq(html, LAMBDA n : ~n.tag /\ n.s # "")
    IN  [i \in 1..Len(kept) |-> kept[i].s]

\* scrape_organization_dashboard(driver)
scrape_organization_dashboard(site) ==
    LET get == [op |-> "get", page |-> dashboard_url]
        wait == [op |-> "wait_present", el |-> "body"]
        src == [op |-> "page_source"]
        err(e) == Ret([status |-> "error",
                       message |-> <<"scrape_organization_dashboard failed: ", e>>])
    IN  {[out |-> Ret([status |-> "ok", dashboard_url |-> dashboard_url,
                       text |-> get_text(html)]),
          calls |-> <<Ev(get, TRUE), Ev(wait, TRUE), Ev(src, TRUE)>>] : html \in Pages}
        \cup UNION {
            {[out |-> err("WebDriverException"), calls |-> <<Ev(get, FALSE)>>],
             [out |-> err("TimeoutException"), calls |-> <<Ev(get, TRUE), Ev(wait, FALSE)>>],
             [out |-> err("WebDriverException"),
              calls |-> <<Ev(get, TRUE), Ev(wait, TRUE), Ev(src, FALSE)>>]}
            : r \in Raises(site) \ {FALSE}}

\* ------------------------------------------------------------- requests
\* Variant: a pool that gives every request a thread.
max_workers_unbounded == NumReq

\* executor = ThreadPoolExecutor(max_workers=2)
max_workers == 2

Req == 1..NumReq

UsernameVals == {None, Str(<<>>), Str(S_user)}
PasswordVals == {None, Str(<<>>), Str(S_pass)}
\* "payload" values: JSON objects with any of the two keys, and non-objects.
PayloadDicts ==
    {Dict(<<>>)}
    \cup {Dict([username |-> u]) : u \in UsernameVals}
    \cup {Dict([password |-> p]) : p \in PasswordVals}
    \cup {Dict([username |-> u, password |-> p]) : u \in UsernameVals, p \in PasswordVals}
PayloadVals == PayloadDicts \cup {None, List(<<>>), List(<<Num(1)>>), Str(<<"x">>)}
ActionVals ==
    {None, Str(<<>>), Num(0), Num(5), Str(S_login), Str(S_LOGIN),
     Str(S_scrape_dashboard), Str(S_Scrape_Dashboard), Str(S_logout)}

\* A request body: bytes that are not JSON, or a decoded JSON value.
NotJson == [json |-> FALSE]
Json(v) == [json |-> TRUE, v |-> v]
Creds == Dict([username |-> Str(S_user), password |-> Str(S_pass)])
AllBodies ==
    {NotJson, Json(List(<<>>)), Json(Dict(<<>>))}
    \cup {Json(Dict([action |-> a])) : a \in ActionVals}
    \cup {Json(Dict([payload |-> p])) : p \in PayloadVals}
    \cup {Json(Dict([action |-> a, payload |-> p])) : a \in ActionVals, p \in PayloadVals}
\* The bodies of the requests of the many-request specification.
FewBodies ==
    {Json(Dict(<<>>)),
     Json(Dict([action |-> Str(S_scrape_dashboard), payload |-> Creds]))}

\* await request.json()
request_json(raw) == IF raw.json THEN Ret(raw.v) ELSE Raise("JSONDecodeError")

\* Variant: run without its except clause; the exception leaves the handler.
run_reraise(e) == [k |-> "escaped", e |-> e]

\* The except clause of run, line 179-180.
run_except(e) ==
    [k |-> "json",
     v |-> [status |-> "error", message |-> <<"Unexpected server error: ", e>>]]

\* run, lines 169-176: the response or the exception of the statements up to
\* the submit, or the arguments submitted.
run_parse(raw) ==
    LET j == request_json(raw) IN
    IF j.k = "raise" THEN j
    ELSE IF ~HasGet(j.v) THEN Raise("AttributeError")
    ELSE LET action == Get(j.v, "action", None)
             payload == Get(j.v, "payload", Dict(<<>>))
         IN  IF ~Truthy(action)
             THEN Ret([status |-> "error", message |-> <<"Missing 'action'">>])
             ELSE [k |-> "submit", action |-> action, payload |-> payload]

\* Variant: the result awaited, the event loop free while r waits.
LoopReleased(r) == 0

\* The handler that owns the event loop thread once request r has submitted
\* its task: future.result(timeout=300) is a blocking call, not an await, so
\* the coroutine of r keeps the thread until it returns.
LoopAfterSubmit(r) == r

\* The except clause of run_action_sync, line 156-157.
unexpected_error(e) == [status |-> "error", message |-> <<"Unexpected error: ", e>>]

missing_credentials == [status |-> "error", message |-> <<"Missing 'username' or 'password'">>]

\* run_action_sync, lines 131 and 135-154: what the try block does after
\* create_driver returned: return a dict, raise, or call login_action.
Dispatch(action, payload0) ==
    LET payload == IF Truthy(payload0) THEN payload0 ELSE Dict(<<>>) IN
    IF ~HasGet(payload) THEN Raise("AttributeError")
    ELSE LET username == Get(payload, "username", None)
             password == Get(payload, "password", None)
             login == [k |-> "login", username |-> username, password |-> password]
         IN  IF action.t # "str" THEN Raise("AttributeError")
             ELSE IF Lower(action.s) = S_login
             THEN IF ~Truthy(username) \/ ~Truthy(password)
                  THEN Ret(missing_credentials) ELSE login
             ELSE IF Lower(action.s) = S_scrape_dashboard
             THEN IF ~Truthy(username) \/ ~Truthy(password)
                  THEN Ret(missing_credentials) ELSE login
             ELSE Ret([status |-> "error",
                       message |-> <<"Unknown action '", action.s, "'">>])

\* Line 143: the branch that goes on to scrape after a login.
IsScrape(action) == action.t = "str" /\ Lower(action.s) = S_scrape_dashboard

\* Variant: the status of the login not looked at.
LoginOk_any(resp) == TRUE

\* Line 148: if login_resp.get("status") != "ok": return login_resp
LoginOk(resp) == "status" \in DOMAIN resp /\ resp.status = "ok"

\* ------------------------------------------------------------- state
VARIABLES
    site,       \* what the browser and the site may do (fixed in a run)
    body,       \* body[r]: the body of request r
    hstate,     \* hstate[r]: where the coroutine run() of request r is
    loop,       \* the request whose coroutine holds the event loop thread, or 0
    response,   \* response[r]: what the client of r received
    args,       \* args[r]: the (action, payload) submitted for r
    queue,      \* the executor's work queue (requests whose task waits)
    running,    \* the tasks the pool's running threads are running
    pc,         \* pc[r]: where run_action_sync of r's task is
    driver,     \* driver[r]: the local `driver` of r's task
    calls,      \* calls[r]: the calls made on r's browser, in order
    login_resp, \* login_resp[r]: what login_action gave r's task
    ret,        \* ret[r]: the value run_action_sync of r is returning
    future      \* future[r]: the state of r's Future

vars == <<site, body, hstate, loop, response, args, queue, running, pc, driver,
          calls, login_resp, ret, future>>

Nothing == [k |-> "none"]
Pending == [k |-> "pending"]

InitTasks ==
    /\ loop = 0
    /\ response = [r \in Req |-> Nothing]
    /\ args = [r \in Req |-> Nothing]
    /\ queue = <<>>
    /\ running = {}
    /\ pc = [r \in Req |-> "none"]
    /\ driver = [r \in Req |-> "none"]
    /\ calls = [r \in Req |-> <<>>]
    /\ login_resp = [r \in Req |-> Nothing]
    /\ ret = [r \in Req |-> Nothing]
    /\ future = [r \in Req |-> Nothing]

\* NumReq clients, each with one request, against the site working as the
\* script expects.
Init ==
    /\ site = "nominal"
    /\ body \in [Req -> FewBodies]
    /\ hstate = [r \in Req |-> "new"]
    /\ InitTasks

\* One client with any body, against a browser and a site that may fail at
\* every call.
InitOne ==
    /\ site = "arbitrary"
    /\ \E b \in AllBodies : body = [r \in Req |-> IF r = 1 THEN b ELSE NotJson]
    /\ hstate = [r \in Req |-> IF r = 1 THEN "new" ELSE "absent"]
    /\ InitTasks

Executing(r) == pc[r] \in {"create_driver", "try", "scrape", "finally", "returned"}
IdleWorker == Cardinality(running) < max_workers

\* ------------------------------------------------------------- run()
\* The server accepts request r and starts run(); the coroutine runs up to
\* `await request.json()` and yields the event loop.  Requests are numbered
\* in the order the server accepts them.
Receive(r) ==
    /\ hstate[r] = "new"
    /\ \A q \in Req : q < r => hstate[q] # "new"
    /\ loop = 0
    /\ hstate' = [hstate EXCEPT ![r] = "reading"]
    /\ UNCHANGED <<site, body, loop, response, args, queue, running, pc, driver,
                   calls, login_resp, ret, future>>

\* The coroutine resumes with the body read and runs lines 169-177 up to
\* the blocking future.result, or up to a return.
Handle(r) ==
    /\ hstate[r] = "reading"
    /\ loop = 0
    /\ LET p == run_parse(body[r]) IN
       IF p.k = "submit"
       THEN /\ args' = [args EXCEPT ![r] = [action |-> p.action, payload |-> p.payload]]
            /\ queue' = Append(queue, r)
            /\ pc' = [pc EXCEPT ![r] = "queued"]
            /\ future' = [future EXCEPT ![r] = Pending]
            /\ hstate' = [hstate EXCEPT ![r] = "waiting"]
            /\ loop' = LoopAfterSubmit(r)
            /\ UNCHANGED response
       ELSE /\ response' = [response EXCEPT ![r] =
                               IF p.k = "return" THEN [k |-> "json", v |-> p.v]
                               ELSE run_except(p.e)]
            /\ hstate' = [hstate EXCEPT ![r] = "responded"]
            /\ UNCHANGED <<args, queue, pc, future, loop>>
    /\ UNCHANGED <<site, body, running, driver, calls, login_resp, ret>>

\* future.result returns (or re-raises) once the task is done; run returns.
Deliver(r) ==
    /\ hstate[r] = "waiting"
    /\ future[r].k \in {"return", "raise"}
    /\ response' = [response EXCEPT ![r] =
                       IF future[r].k = "return" THEN [k |-> "json", v |-> future[r].v]
                       ELSE run_except(future[r].e)]
    /\ hstate' = [hstate EXCEPT ![r] = "responded"]
    /\ loop' = IF loop = r THEN 0 ELSE loop
    /\ UNCHANGED <<site, body, args, queue, running, pc, driver, calls, login_resp,
                   ret, future>>

\* future.result(timeout=300) raises TimeoutError: the task has run, or has
\* waited behind busy workers, for 300 seconds.  The task is not cancelled.
Timeout(r) ==
    /\ hstate[r] = "waiting"
    /\ future[r].k = "pending"
    /\ Executing(r) \/ ~IdleWorker
    /\ response' = [response EXCEPT ![r] = run_except("TimeoutError")]
    /\ hstate' = [hstate EXCEPT ![r] = "responded"]
    /\ loop' = IF loop = r THEN 0 ELSE loop
    /\ UNCHANGED <<site, body, args, queue, running, pc, driver, calls, login_resp,
                   ret, future>>

\* ------------------------------------------------------------- the pool
\* A worker thread that is idle takes the oldest work item and calls
\* run_action_sync; the pool has at most max_workers threads.  The threads
\* are interchangeable: `running` holds the tasks they are running.
Start ==
    /\ Cardinality(running) < max_workers
    /\ queue # <<>>
    /\ running' = running \cup {Head(queue)}
    /\ queue' = Tail(queue)
    /\ pc' = [pc EXCEPT ![Head(queue)] = "create_driver"]
    /\ UNCHANGED <<site, body, hstate, loop, response, args, driver, calls,
                   login_resp, ret, future>>

\* run_action_sync returned (or raised): its thread sets the Future and is idle.
Finish(r) ==
    /\ r \in running
    /\ pc[r] = "returned"
    /\ future' = [future EXCEPT ![r] = ret[r]]
    /\ pc' = [pc EXCEPT ![r] = "done"]
    /\ running' = running \ {r}
    /\ UNCHANGED <<site, body, hstate, loop, response, args, queue, driver, calls,
                   login_resp, ret>>

\* ------------------------------------------------------------- run_action_sync
\* Line 133: driver = create_driver(); when it raises, line 156 catches.
CreateDriver(r) ==
    /\ pc[r] = "create_driver"
    /\ \E raised \in Raises(site) :
          IF raised
          THEN /\ ret' = [ret EXCEPT ![r] = Ret(unexpected_error("WebDriverException"))]
               /\ pc' = [pc EXCEPT ![r] = "finally"]
               /\ UNCHANGED driver
          ELSE /\ driver' = [driver EXCEPT ![r] = "open"]
               /\ pc' = [pc EXCEPT ![r] = "try"]
               /\ UNCHANGED ret
    /\ UNCHANGED <<site, body, hstate, loop, response, args, queue, running, calls,
                   login_resp, future>>

\* Lines 135-149 and 153-157: the try block after create_driver, up to a
\* return or to the call of scrape_organization_dashboard.  login_action runs
\* on the task's browser; its dict is returned, unless the action is
\* scrape_dashboard and the login is ok.  Whatever is raised is caught by
\* line 156.
Try(r) ==
    /\ pc[r] = "try"
    /\ LET d == Dispatch(args[r].action, args[r].payload) IN
       IF d.k = "login"
       THEN \E o \in login_action(d.username, d.password, site) :
               /\ calls' = [calls EXCEPT ![r] = @ \o o.calls]
               /\ login_resp' = [login_resp EXCEPT ![r] = o.out]
               /\ IF o.out.k = "raise"
                  THEN /\ ret' = [ret EXCEPT ![r] = Ret(unexpected_error(o.out.e))]
                       /\ pc' = [pc EXCEPT ![r] = "finally"]
                  ELSE IF IsScrape(args[r].action) /\ LoginOk(o.out.v)
                  THEN /\ pc' = [pc EXCEPT ![r] = "scrape"]
                       /\ UNCHANGED ret
                  ELSE /\ ret' = [ret EXCEPT ![r] = o.out]
                       /\ pc' = [pc EXCEPT ![r] = "finally"]
       ELSE /\ ret' = [ret EXCEPT ![r] =
                          IF d.k = "return" THEN d ELSE Ret(unexpected_error(d.e))]
            /\ pc' = [pc EXCEPT ![r] = "finally"]
            /\ UNCHANGED <<calls, login_resp>>
    /\ UNCHANGED <<site, body, hstate, loop, response, args, queue, running, driver,
                   future>>

\* Line 151: return scrape_organization_dashboard(driver)
Scrape(r) ==
    /\ pc[r] = "scrape"
    /\ \E o \in scrape_organization_dashboard(site) :
          /\ calls' = [calls EXCEPT ![r] = @ \o o.calls]
          /\ ret' = [ret EXCEPT ![r] =
                        IF o.out.k = "raise" THEN Ret(unexpected_error(o.out.e)) ELSE o.out]
    /\ pc' = [pc EXCEPT ![r] = "finally"]
    /\ UNCHANGED <<site, body, hstate, loop, response, args, queue, running, driver,
                   login_resp, future>>

\* Variant: a finally block that never quits.
ShouldQuit_never(d) == FALSE

\* Line 159: `if driver:`, true of every driver create_driver returned.
ShouldQuit(d) == d = "open"

\* Lines 158-163: if driver: try: driver.quit() except: pass.  Then the
\* function returns the value of the return statement that ran.
Finally(r) ==
    /\ pc[r] = "finally"
    /\ IF ShouldQuit(driver[r])
       THEN \E raised \in Raises(site) :
               /\ calls' = [calls EXCEPT ![r] = Append(@, Ev([op |-> "quit"], ~raised))]
               /\ driver' = [driver EXCEPT ![r] = "quit"]
       ELSE UNCHANGED <<calls, driver>>
    /\ pc' = [pc EXCEPT ![r] = "returned"]
    /\ UNCHANGED <<site, body, hstate, loop, response, args, queue, running,
                   login_resp, ret, future>>

Next ==
    \/ \E r \in Req : Receive(r)
    \/ \E r \in Req : Handle(r)
    \/ \E r \in Req : Deliver(r)
    \/ \E r \in Req : Timeout(r)
    \/ Start
    \/ \E r \in Req : Finish(r)
    \/ \E r \in Req : CreateDriver(r)
    \/ \E r \in Req : Try(r)
    \/ \E r \in Req : Scrape(r)
    \/ \E r \in Req : Finally(r)

\* Many requests, nominal site.
Spec == Init /\ [][Next]_vars
\* One request, any body, any browser behaviour.
SpecOne == InitOne /\ [][Next]_vars

\* ------------------------------------------------------------- properties
Submitted(r) == args[r] # Nothing
Responded(r) == hstate[r] = "responded"
Returned(r) == pc[r] \in {"returned", "done"}
TimedOut(r) == Responded(r) /\ response[r] = run_except("TimeoutError")
Idx(r) == 1..Len(calls[r])
Op(r, i) == calls[r][i].call.op
\* Call i of r's browser is `op` on element `el`.
OnEl(r, i, op, el) == Op(r, i) = op /\ calls[r][i].call.el = el
Clicked(r, i, el) == OnEl(r, i, "native_click", el) \/ OnEl(r, i, "script_click", el)
Typed(r, i, el) == OnEl(r, i, "send_keys", el) /\ calls[r][i].ok
Loaded(r, i, page) == Op(r, i) = "get" /\ calls[r][i].call.page = page
Quits(r) == {i \in Idx(r) : Op(r, i) = "quit"}
Screenshots(r) == {i \in Idx(r) : Op(r, i) = "save_screenshot"}
\* The action of r's task is `name`, compared as the code compares it.
ActionIs(r, name) ==
    Submitted(r) /\ args[r].action.t = "str" /\ Lower(args[r].action.s) = name
\* The payload of r's task has no non-empty username or no non-empty password.
LacksCredentials(r) ==
    /\ Submitted(r)
    /\ LET p == args[r].payload IN
       \/ p.t = "none"
       \/ /\ p.t = "dict"
          /\ \/ "username" \notin DOMAIN p.d
             \/ p.d.username \in {None, Str(<<>>)}
             \/ "password" \notin DOMAIN p.d
             \/ p.d.password \in {None, Str(<<>>)}

\* C1: every JSON response of POST /run holds a 'status' key and a
\* 'message' key.
C1_StatusAndMessage ==
    \A r \in Req :
        (Responded(r) /\ response[r].k = "json")
            => {"status", "message"} \subseteq DOMAIN response[r].v

\* C2: when the response of a request whose action was submitted to the pool
\* is returned, the browser opened for that request is closed.
C2_ClosedBeforeResponse ==
    \A r \in Req : (Responded(r) /\ Submitted(r)) => driver[r] # "open"

\* C3: when run_action_sync returns, a browser that create_driver returned
\* has been quit exactly once, whatever the exit path; when create_driver
\* raised, no quit was attempted and the result is 'Unexpected error'; the
\* function returns a dict, and the quit (raising or not) leaves the value
\* being returned as it was.
C3_QuitExactlyOnce ==
    /\ [](\A r \in Req :
            /\ Cardinality(Quits(r)) <= 1
            /\ Returned(r) =>
                 /\ ret[r].k = "return"
                 /\ driver[r] # "open"
                 /\ driver[r] = "quit" => Cardinality(Quits(r)) = 1
                 /\ driver[r] = "none" =>
                      /\ Quits(r) = {}
                      /\ ret[r].v.status = "error"
                      /\ ret[r].v.message[1] = "Unexpected error: ")
    /\ [][\A r \in Req : pc[r] = "finally" => ret'[r] = ret[r]]_vars

\* A task went through login, the login failed, quit raised, and the task
\* returned the login's error.
C3_Witness ==
    \E r \in Req :
        /\ pc[r] = "done"
        /\ driver[r] = "quit"
        /\ \E i \in Quits(r) : ~calls[r][i].ok
        /\ ret[r].v.status = "error"
        /\ ret[r].v.message[1] = "Login failed: "

\* C4: at most 2 run_action_sync tasks execute at the same time and at most 2
\* browsers are open at the same time, also after requests timed out.
C4_AtMostTwo ==
    /\ Cardinality({r \in Req : Executing(r)}) <= 2
    /\ Cardinality({r \in Req : driver[r] = "open"}) <= 2

\* Two tasks of timed-out requests hold an open browser and a third task
\* waits in the queue.
C4_Witness ==
    \E a, b, c \in Req :
        /\ a # b
        /\ driver[a] = "open" /\ driver[b] = "open"
        /\ TimedOut(a)
        /\ pc[c] = "queued"

\* C5: for scrape_dashboard the login page is the first page loaded, the
\* dashboard is loaded only after login_action returned status 'ok', and
\* when login_action returned another status the dashboard is never loaded
\* and the result of the task is the login's dict, unchanged.
C5_LoginBeforeScrape ==
    \A r \in Req : ActionIs(r, S_scrape_dashboard) =>
        /\ \A i \in Idx(r) : Loaded(r, i, dashboard_url) =>
              /\ login_resp[r].k = "return"
              /\ login_resp[r].v.status = "ok"
              /\ \E j \in 1..(i - 1) : Loaded(r, j, LoginPage)
        /\ (\E i \in Idx(r) : Op(r, i) = "get") => Loaded(r, 1, LoginPage)
        /\ (login_resp[r].k = "return" /\ login_resp[r].v.status # "ok") =>
              /\ \A i \in Idx(r) : ~Loaded(r, i, dashboard_url)
              /\ pc[r] \in {"finally", "returned", "done"}
              /\ ret[r] = login_resp[r]
              /\ ret[r].v.status = "error"
              /\ ret[r].v.message[1] = "Login failed: "
              /\ "screenshot" \in DOMAIN ret[r].v
              /\ pc[r] = "done" => future[r] = login_resp[r]

\* A scrape_dashboard task whose login failed has finished.
C5_Witness ==
    \E r \in Req :
        /\ ActionIs(r, S_scrape_dashboard)
        /\ pc[r] = "done"
        /\ login_resp[r].k = "return"
        /\ login_resp[r].v.status = "error"

\* A body that is not JSON or not an object, and an action that is not a string
\* or a payload that is not an object.
BadBody(r) ==
    \/ ~body[r].json
    \/ body[r].v.t # "dict"
BadArgs(r) ==
    /\ Submitted(r)
    /\ \/ args[r].action.t # "str"
       \/ args[r].payload.t \in {"str", "num"}
       \/ args[r].payload.t = "list" /\ Len(args[r].payload.l) > 0

\* C6: every request that is answered is answered by a JSON object whose
\* status is 'ok' or 'error', never by an exception; a bad body, a bad
\* action or payload, a failure to create the browser and a timeout are
\* answered with status 'error' and a message.
C6_NoEscape ==
    \A r \in Req : Responded(r) =>
        /\ response[r].k = "json"
        /\ "status" \in DOMAIN response[r].v
        /\ response[r].v.status \in {"ok", "error"}
        /\ (\/ BadBody(r)
            \/ BadArgs(r)
            \/ Submitted(r) /\ Returned(r) /\ driver[r] = "none"
            \/ Submitted(r) /\ ~Returned(r))
           => /\ response[r].v.status = "error"
              /\ "message" \in DOMAIN response[r].v

\* A request whose body is not JSON has been answered with an error.
C6_Witness ==
    \E r \in Req :
        /\ Responded(r)
        /\ ~body[r].json
        /\ response[r].k = "json"
        /\ response[r].v.status = "error"
\* Call i of r's browser read current_url and got u.
Observed(r, i) == Op(r, i) = "current_url" /\ calls[r][i].ok
\* Call i of r's browser is a wait that timed out.
WaitTimedOut(r, i) == Op(r, i) \in {"wait_present", "wait_url"} /\ ~calls[r][i].ok
\* Call i of r's browser is a statement of login_action's try block raising.
StepFailed(r, i) ==
    /\ ~calls[r][i].ok
    /\ Op(r, i) \notin {"native_click", "save_screenshot", "quit"}
LoginRan(r) == login_resp[r] # Nothing
\* Call i of r's browser was made by login_action: it precedes the load of
\* the dashboard and is not the quit.
InLogin(r, i) ==
    /\ Op(r, i) # "quit"
    /\ \A j \in 1..i : ~Loaded(r, j, dashboard_url)

C8_LoginNeverRaises ==
    \A r \in Req : LoginRan(r) =>
        /\ login_resp[r].k = "return"
        /\ login_resp[r].v.status \in {"ok", "error"}
        /\ login_resp[r].v.status = "ok" <=> Screenshots(r) = {}
        /\ (\E i \in Idx(r) : InLogin(r, i) /\ StepFailed(r, i))
              => login_resp[r].v.status = "error"
        /\ login_resp[r].v.status = "error" =>
              /\ Cardinality(Screenshots(r)) = 1
              /\ login_resp[r].v.message[1] = "Login failed: "
              /\ "screenshot" \in DOMAIN login_resp[r].v
              /\ login_resp[r].v.screenshot = screenshot_path
              /\ \A i \in Screenshots(r) : calls[r][i].call.path = screenshot_path

\* A login failed and the save of its screenshot failed too.
C8_Witness ==
    \E r \in Req :
        /\ LoginRan(r)
        /\ login_resp[r].k = "return"
        /\ login_resp[r].v.status = "error"
        /\ "screenshot" \in DOMAIN login_resp[r].v
        /\ \E i \in Screenshots(r) : ~calls[r][i].ok
\* The task of r is a login or a scrape_dashboard without credentials.
NoCredentials(r) ==
    /\ ActionIs(r, S_login) \/ ActionIs(r, S_scrape_dashboard)
    /\ LacksCredentials(r)
\* The body of r is an object with no action, or an empty one.
NoAction(r) ==
    /\ body[r].json
    /\ body[r].v.t = "dict"
    /\ \/ "action" \notin DOMAIN body[r].v.d
       \/ body[r].v.d.action \in {None, Str(<<>>)}
NoPageLoaded(r) == \A i \in Idx(r) : Op(r, i) # "get"
\* A request with no action is answered by the handler, nothing is submitted
\* and no browser is created.
AnsweredByHandler(r) ==
    NoAction(r) =>
        /\ ~Submitted(r)
        /\ pc[r] = "none"
        /\ driver[r] = "none"
        /\ Responded(r) =>
             response[r] = [k |-> "json",
                            v |-> [status |-> "error", message |-> <<"Missing 'action'">>]]

\* C9 as stated: a login or scrape_dashboard without credentials returns
\* "Missing 'username' or 'password'" and loads no page, a browser having
\* been created and quit; a request without action is answered "Missing
\* 'action'" without a task and without a browser.
C9_MissingCredentials ==
    \A r \in Req :
        /\ AnsweredByHandler(r)
        /\ NoCredentials(r) =>
             /\ NoPageLoaded(r)
             /\ Returned(r) =>
                  /\ ret[r] = Ret(missing_credentials)
                  /\ driver[r] = "quit"
                  /\ Cardinality(Quits(r)) = 1

\* C9 amended: the same, provided create_driver returned; when create_driver
\* raised, the task returns 'Unexpected error: ...', no browser exists and
\* none is quit.
C9_MissingCredentialsIfDriver ==
    \A r \in Req :
        /\ AnsweredByHandler(r)
        /\ NoCredentials(r) =>
             /\ NoPageLoaded(r)
             /\ Returned(r) =>
                  IF driver[r] = "none"
                  THEN /\ ret[r].k = "return"
                       /\ ret[r].v.status = "error"
                       /\ ret[r].v.message[1] = "Unexpected error: "
                       /\ Quits(r) = {}
                  ELSE /\ ret[r] = Ret(missing_credentials)
                       /\ driver[r] = "quit"
                       /\ Cardinality(Quits(r)) = 1

\* A login with an empty username returned the missing-credentials error
\* after its browser was created and quit.
C9_Witness ==
    \E r \in Req :
        /\ ActionIs(r, S_login)
        /\ args[r].payload.t = "dict"
        /\ "username" \in DOMAIN args[r].payload.d
        /\ args[r].payload.d.username = Str(<<>>)
        /\ pc[r] = "done"
        /\ driver[r] = "quit"
        /\ ret[r] = Ret(missing_credentials)

\* C10: at most one request waits for its task's result at a time, and
\* while a request waits no other request's handler moves and no other task
\* is submitted; two tasks execute at the same time only when the request
\* of one of them ended by the timeout.
C10_OneAtATime ==
    /\ [](/\ Cardinality({r \in Req : hstate[r] = "waiting"}) <= 1
          /\ \A r, q \in Req :
                (r # q /\ Executing(r) /\ Executing(q)) => (TimedOut(r) \/ TimedOut(q)))
    /\ [][\A r, q \in Req :
            (r # q /\ hstate[r] = "waiting") =>
                /\ hstate'[q] = hstate[q]
                /\ args'[q] = args[q]
                /\ response'[q] = response[q]]_vars

\* Two tasks execute at the same time: the request of one timed out, the
\* request of the other is waiting.
C10_Witness ==
    \E r, q \in Req :
        /\ r # q
        /\ Executing(r) /\ Executing(q)
        /\ TimedOut(r)
        /\ hstate[q] = "waiting"
====
